---- MODULE Spec2Model ----
(***************************************************************************)
(* Attempt lifecycle of the quiz backend: the identity-based flow          *)
(* (routes/studentAuthRoutes.js: /quiz/start, /quiz/save-progress,         *)
(* /quiz/submit), the token-based flow (routes/studentQuiz.js:             *)
(* /attempt/start, /attempt/submit), the QuizAttempt model and the Quiz    *)
(* model's isAccessible.  Every handler is cut at its await points, so     *)
(* that requests interleave the way they do on the Node event loop.        *)
(* Times are milliseconds since the epoch of the run.                      *)
(***************************************************************************)
EXTENDS Integers, Sequences, FiniteSets, TLC

VARIABLES now, quiz, attempts, req, response, finalizeCount, auth

vars == <<now, quiz, attempts, req, response, finalizeCount, auth>>

(* ---------------------------- bounds ---------------------------------- *)
MaxAttempts == 2
MaxReqs == 2
MaxNow == 1800500
MaxDays == 2
MaxQuestions == 2
MaxFailedAttempts == 6

(* ---------------------------- constants ------------------------------- *)
Null == 0 - 1
DayMs == 86400000
MaxFailedLogins == 5
HourMs == 3600000
MinuteMs == 60000
DefaultDuration == 30
LockMs == 30 * MinuteMs

Reqs == 1..MaxReqs
TickSteps == {DefaultDuration * MinuteMs + 500}
NoTime == <<Null, Null>>
NullPct == <<Null, 1>>

LiveStatuses == {"started", "in-progress"}
TerminalStatuses == {"submitted", "graded", "expired", "blocked"}

(* ---------------------------- quiz ------------------------------------ *)
Questions ==
  << [id |-> 1, type |-> "mcq", options |-> <<"x", "y">>, answer |-> "A",
      marks |-> 2, explanation |-> ""],
     [id |-> 2, type |-> "short-answer", options |-> <<>>, answer |-> "t",
      marks |-> 3, explanation |-> ""] >>

RECURSIVE SumMarks(_)
SumMarks(qs) ==
  IF qs = <<>> THEN 0
  ELSE (IF Head(qs).marks = 0 THEN 1 ELSE Head(qs).marks) + SumMarks(Tail(qs))

BaseQuiz ==
  [isScheduled |-> FALSE, startDate |-> Null, startTime |-> NoTime,
   endDate |-> Null, endTime |-> NoTime, duration |-> 1,
   questions |-> Questions, numQuestions |-> Len(Questions),
   totalMarks |-> SumMarks(Questions), sharedWith |-> {"s1"}]

QuizConfigs ==
  { BaseQuiz,
    [BaseQuiz EXCEPT !.isScheduled = TRUE, !.startDate = 0, !.endDate = 0,
                     !.startTime = <<0, 1>>, !.endTime = <<0, 2>>] }

DateOf(d) == IF d = Null THEN 0 ELSE d

SetHours(d, hm) == (d \div DayMs) * DayMs + hm[1] * HourMs + hm[2] * MinuteMs

CombineDateTime(d, hm) == IF hm = NoTime THEN DateOf(d) ELSE SetHours(DateOf(d), hm)

(* the comparisons of now with the start and the end instant *)
WindowResult_EndExclusive(startDateTime, endDateTime, t) ==
  IF t < startDateTime
  THEN [accessible |-> FALSE, startsAt |-> startDateTime,
        endedAt |-> Null, endsAt |-> Null]
  ELSE IF t >= endDateTime
  THEN [accessible |-> FALSE, startsAt |-> Null,
        endedAt |-> endDateTime, endsAt |-> Null]
  ELSE [accessible |-> TRUE, startsAt |-> Null, endedAt |-> Null,
        endsAt |-> endDateTime]

WindowResult(startDateTime, endDateTime, t) ==
  IF t < startDateTime
  THEN [accessible |-> FALSE, startsAt |-> startDateTime,
        endedAt |-> Null, endsAt |-> Null]
  ELSE IF t > endDateTime
  THEN [accessible |-> FALSE, startsAt |-> Null,
        endedAt |-> endDateTime, endsAt |-> Null]
  ELSE [accessible |-> TRUE, startsAt |-> Null, endedAt |-> Null,
        endsAt |-> endDateTime]

isAccessible_ScheduleAlwaysChecked(q, t) ==
  WindowResult(CombineDateTime(q.startDate, q.startTime),
               CombineDateTime(q.endDate, q.endTime), t)

isAccessible(q, t) ==
  IF ~q.isScheduled
  THEN [accessible |-> TRUE, startsAt |-> Null, endedAt |-> Null, endsAt |-> Null]
  ELSE WindowResult(CombineDateTime(q.startDate, q.startTime),
                    CombineDateTime(q.endDate, q.endTime), t)

(* ---------------------------- attempts -------------------------------- *)
LinkToken(e) == [kind |-> "link", email |-> e, n |-> 0]
RandomToken(n) == [kind |-> "rnd", email |-> "", n |-> n]
DecodeToken(t) == t.email

NoAttempt ==
  [email |-> "", uniqueToken |-> RandomToken(0), status |-> "none",
   answers |-> <<>>, totalMarks |-> 0, maxMarks |-> Null,
   percentage |-> NullPct, startedAt |-> Null, submittedAt |-> Null,
   gradedAt |-> Null, duration |-> DefaultDuration, timeSpent |-> 0,
   isAutoSubmit |-> FALSE, violationReason |-> "undef"]

FloorSeconds_Millis(ms) == ms

FloorSeconds(ms) == ms \div 1000

elapsedTime(a, t) ==
  IF a.startedAt = Null THEN 0
  ELSE FloorSeconds((IF a.submittedAt # Null THEN a.submittedAt ELSE t) - a.startedAt)

TotalSeconds(a) == (IF a.duration = 0 THEN DefaultDuration ELSE a.duration) * 60

timeRemaining_StatusIgnored(a, t) ==
  LET left == TotalSeconds(a) - elapsedTime(a, t)
  IN IF left > 0 THEN left ELSE 0

timeRemaining(a, t) ==
  IF a.status \notin LiveStatuses THEN 0
  ELSE LET left == TotalSeconds(a) - elapsedTime(a, t)
       IN IF left > 0 THEN left ELSE 0

isExpired_StrictlyAfter(a, t) ==
  IF a.status \notin LiveStatuses THEN FALSE
  ELSE elapsedTime(a, t) > TotalSeconds(a)

isExpired(a, t) ==
  IF a.status \notin LiveStatuses THEN FALSE
  ELSE elapsedTime(a, t) >= TotalSeconds(a)

(* findOne: the first stored document, in insertion order, that matches *)
FindOne(matching) ==
  IF matching = {} THEN 0
  ELSE CHOOSE i \in matching : \A j \in matching : i <= j

(* save of a loaded document: $set of the modified paths only *)
SaveDoc(id, doc, dirty) ==
  [attempts EXCEPT ![id] =
     [f \in DOMAIN attempts[id] |-> IF f \in dirty THEN doc[f] ELSE attempts[id][f]]]

ModifiedPaths(loaded, doc, assigned) ==
  {f \in assigned :
     \/ loaded[f] # doc[f]
     \/ f = "answers" /\ Len(doc[f]) > 0}

Payloads ==
  { <<>>,
    << [questionId |-> 1, studentAnswer |-> "x"],
       [questionId |-> 2, studentAnswer |-> "t"] >> }

(* what gradeShortAnswer can do: throw, or return any isCorrect and marks *)
GraderOutcomes ==
  { [threw |-> TRUE, isCorrect |-> FALSE, marks |-> 0],
    [threw |-> FALSE, isCorrect |-> TRUE, marks |-> 3],
    [threw |-> FALSE, isCorrect |-> TRUE, marks |-> 4],
    [threw |-> FALSE, isCorrect |-> FALSE, marks |-> 0] }

FullMarks == {g \in GraderOutcomes : g.isCorrect /\ g.marks = 3}

(* ---------------------------- requests -------------------------------- *)
NoAccess ==
  [accessible |-> FALSE, startsAt |-> Null, endedAt |-> Null, endsAt |-> Null]

(* failedChecks is a history field for the claims, not a path of the      *)
(* schema: the failed password checks since the last successful login     *)
NoAccount ==
  [email |-> "", failedAttempts |-> 0, lockUntil |-> Null, failedChecks |-> 0]

NoResponse ==
  [op |-> "none", email |-> "", attemptId |-> 0, reason |-> "",
   hadTerminal |-> FALSE, code |-> 0, msg |-> "", id |-> 0, answers |-> <<>>,
   access |-> NoAccess, questions |-> <<>>, timeRemaining |-> Null]

IdleReq ==
  [op |-> "none", pc |-> "idle", email |-> "", attemptId |-> 0,
   answers |-> <<>>, reason |-> "", isAutoSubmit |-> FALSE,
   hadTerminal |-> FALSE, doc |-> NoAttempt, loaded |-> NoAttempt,
   ai |-> <<>>, access |-> NoAccess, kind |-> "list", missing |-> FALSE,
   waited |-> FALSE, account |-> NoAccount, passwordOk |-> FALSE]

(* history: whether a terminal attempt of the caller existed on arrival *)
HadTerminal(e) ==
  \E i \in 1..Len(attempts) :
    attempts[i].email = e /\ attempts[i].status \in TerminalStatuses

NewReq(op, pc, e) ==
  [IdleReq EXCEPT !.op = op, !.pc = pc, !.email = e, !.hadTerminal = HadTerminal(e)]

(* if (!quizId) / if (!attemptId) / if (!token || !studentName || ...):   *)
(* a required input of the request is absent                              *)
MissingInput_Unchecked(rq) == FALSE

MissingInput(rq) == rq.missing

(* Array.isArray(answers) ? answers : [] *)
FormattedAnswers(rq) == IF rq.kind = "list" THEN rq.answers ELSE <<>>

(* res.json / res.status(code).json: the handler ends with this response *)
Respond(r, code, msg, id, ans) ==
  /\ req' = [req EXCEPT ![r] = IdleReq]
  /\ response' = [op |-> req[r].op, email |-> req[r].email,
                  attemptId |-> req[r].attemptId, reason |-> req[r].reason,
                  hadTerminal |-> req[r].hadTerminal,
                  code |-> code, msg |-> msg, id |-> id, answers |-> ans,
                  access |-> NoAccess, questions |-> <<>>,
                  timeRemaining |-> Null]

(* res.json({ success, message, attempt: { id, .., timeRemaining, .. } }) *)
RespondAttempt(r, msg, id, ans, left) ==
  /\ req' = [req EXCEPT ![r] = IdleReq]
  /\ response' = [NoResponse EXCEPT
                    !.op = req[r].op, !.email = req[r].email,
                    !.attemptId = req[r].attemptId, !.reason = req[r].reason,
                    !.hadTerminal = req[r].hadTerminal,
                    !.code = 200, !.msg = msg, !.id = id, !.answers = ans,
                    !.timeRemaining = left]

(* the questions of a response: quiz.questions.map(q => ({ ... })) *)
QuizDetailsQuestion(q) ==
  [id |-> q.id, type |-> q.type, options |-> q.options,
   marks |-> (IF q.marks = 0 THEN 1 ELSE q.marks)]

LinkQuestion_WithAnswer(q) ==
  [id |-> q.id, type |-> q.type, options |-> q.options, answer |-> q.answer]

LinkQuestion(q) == [id |-> q.id, type |-> q.type, options |-> q.options]

(* res.json({ success, attemptId, quiz: { ..., questions } }) *)
RespondQuiz(r, id, qs) ==
  /\ req' = [req EXCEPT ![r] = IdleReq]
  /\ response' = [NoResponse EXCEPT
                    !.op = req[r].op, !.email = req[r].email,
                    !.hadTerminal = req[r].hadTerminal,
                    !.code = 200, !.msg = "quiz", !.id = id,
                    !.questions = qs]

Goto(r, pc) == req' = [req EXCEPT ![r].pc = pc] /\ UNCHANGED response

(* the inputs the requests of a specification are drawn from *)
MainInputs ==
  [emails |-> {"s1"}, payloads |-> Payloads, reasons |-> {"", "tab-switch"},
   autos |-> {FALSE}, ids |-> 1..MaxAttempts,
   grades |-> FullMarks, kinds |-> {"list"}, missing |-> {FALSE}]

RaceInputs ==
  [emails |-> {"s1"}, payloads |-> {p \in Payloads : p # <<>>},
   reasons |-> {""}, autos |-> {FALSE}, ids |-> {1},
   grades |-> FullMarks, kinds |-> {"list"}, missing |-> {FALSE}]

(* new StudentAuth({ email, .. }): failedAttempts 0, lockUntil null *)
NewAccount(e) == [NoAccount EXCEPT !.email = e]

(* the accounts of the students who use the quiz routes *)
RegisteredAccounts == << NewAccount("s1") >>

Init ==
  /\ now = 0
  /\ quiz \in QuizConfigs
  /\ attempts = <<>>
  /\ req = [r \in Reqs |-> IdleReq]
  /\ response = NoResponse
  /\ finalizeCount = [i \in 1..MaxAttempts |-> 0]
  /\ auth = RegisteredAccounts

Tick(steps) ==
  /\ \E d \in steps : now + d <= MaxNow /\ now' = now + d
  /\ UNCHANGED <<quiz, attempts, req, response, finalizeCount, auth>>

(* ------------------- POST /quiz/start (identity-based begin) ---------- *)
IsSubmittedFor(e, a) == a.email = e /\ a.status \in {"submitted", "graded"}

IsLiveFor(e, a) == a.email = e /\ a.status \in LiveStatuses

NewIdentityAttempt(e, t) ==
  [NoAttempt EXCEPT !.email = e, !.status = "started",
                    !.maxMarks = quiz.totalMarks,
                    !.duration = (IF quiz.duration = 0 THEN DefaultDuration
                                  ELSE quiz.duration),
                    !.startedAt = t]

QuizStart_Request(r, in) ==
  /\ req[r].pc = "idle"
  /\ \E e \in in.emails, m \in in.missing :
       req' = [req EXCEPT ![r] =
                 [NewReq("quiz/start", "start_quiz", e) EXCEPT !.missing = m]]
  /\ response' = NoResponse
  /\ UNCHANGED <<now, quiz, attempts, finalizeCount, auth>>

QuizStart_FindQuiz(r) ==
  /\ req[r].pc = "start_quiz"
  /\ IF MissingInput(req[r])
     THEN Respond(r, 400, "Quiz ID is required", 0, <<>>)
     ELSE IF req[r].email \notin quiz.sharedWith
     THEN Respond(r, 404, "Quiz not found or not shared with you", 0, <<>>)
     ELSE Goto(r, "start_submitted")
  /\ UNCHANGED <<now, quiz, attempts, finalizeCount, auth>>

QuizStart_FindSubmitted(r) ==
  /\ req[r].pc = "start_submitted"
  /\ LET submittedAttempt == FindOne({i \in 1..Len(attempts) : IsSubmittedFor(req[r].email, attempts[i])})
     IN IF submittedAttempt # 0
        THEN Respond(r, 400, "You have already submitted this quiz", 0, <<>>)
        ELSE Goto(r, "start_existing")
  /\ UNCHANGED <<now, quiz, attempts, finalizeCount, auth>>

QuizStart_FindExisting(r) ==
  /\ req[r].pc = "start_existing"
  /\ LET existingAttempt == FindOne({i \in 1..Len(attempts) : IsLiveFor(req[r].email, attempts[i])})
     IN IF existingAttempt = 0
        THEN UNCHANGED response /\ req' = [req EXCEPT ![r].pc = "start_create",
                                ![r].doc = NewIdentityAttempt(req[r].email, now)]
        ELSE IF isExpired(attempts[existingAttempt], now)
        THEN UNCHANGED response /\ req' = [req EXCEPT ![r].pc = "start_expire_save",
                                ![r].attemptId = existingAttempt,
                                ![r].loaded = attempts[existingAttempt],
                                ![r].doc = [attempts[existingAttempt] EXCEPT
                                              !.status = "expired",
                                              !.submittedAt = now]]
        ELSE RespondAttempt(r, "Resuming existing attempt", existingAttempt,
                            attempts[existingAttempt].answers,
                            timeRemaining(attempts[existingAttempt], now))
  /\ UNCHANGED <<now, quiz, attempts, finalizeCount, auth>>

QuizStart_ExpireSave(r) ==
  /\ req[r].pc = "start_expire_save"
  /\ attempts' = SaveDoc(req[r].attemptId, req[r].doc,
                         ModifiedPaths(req[r].loaded, req[r].doc,
                                       {"status", "submittedAt"}))
  /\ UNCHANGED response /\ req' = [req EXCEPT ![r].pc = "start_create",
                        ![r].attemptId = 0,
                        ![r].loaded = NoAttempt,
                        ![r].doc = NewIdentityAttempt(req[r].email, now)]
  /\ UNCHANGED <<now, quiz, finalizeCount, auth>>

QuizStart_CreateSave(r) ==
  /\ req[r].pc = "start_create"
  /\ Len(attempts) < MaxAttempts
  /\ attempts' = Append(attempts,
                        [req[r].doc EXCEPT !.uniqueToken = RandomToken(Len(attempts) + 1)])
  /\ RespondAttempt(r, "Quiz attempt started successfully", Len(attempts) + 1,
                    <<>>, timeRemaining(req[r].doc, now))
  /\ UNCHANGED <<now, quiz, finalizeCount, auth>>

(* ------------------- POST /attempt/start (token-based begin) ---------- *)
HasToken(t, a) == a.uniqueToken = t

TokenStartAccepts(a) == a.status = "started"

NewTokenAttempt(e, t) ==
  [NoAttempt EXCEPT !.email = e, !.uniqueToken = LinkToken(e),
                    !.status = "started",
                    !.maxMarks = Len(quiz.questions),
                    !.startedAt = t]

AttemptStart_Request(r, in) ==
  /\ req[r].pc = "idle"
  /\ \E e \in in.emails, m \in in.missing :
       req' = [req EXCEPT ![r] =
                 [NewReq("attempt/start", "tstart_quiz", e) EXCEPT !.missing = m]]
  /\ response' = NoResponse
  /\ UNCHANGED <<now, quiz, attempts, finalizeCount, auth>>

AttemptStart_FindQuiz(r) ==
  /\ req[r].pc = "tstart_quiz"
  /\ IF MissingInput(req[r])
     THEN Respond(r, 400, "All fields are required", 0, <<>>)
     ELSE IF ~isAccessible(quiz, now).accessible
     THEN Respond(r, 403, "not accessible", 0, <<>>)
     ELSE Goto(r, "tstart_existing")
  /\ UNCHANGED <<now, quiz, attempts, finalizeCount, auth>>

AttemptStart_FindExisting(r) ==
  /\ req[r].pc = "tstart_existing"
  /\ LET email == DecodeToken(LinkToken(req[r].email))
         existingAttempt == FindOne({i \in 1..Len(attempts) : HasToken(LinkToken(req[r].email), attempts[i])})
     IN IF existingAttempt # 0
        THEN IF ~TokenStartAccepts(attempts[existingAttempt])
             THEN Respond(r, 400, "Quiz already submitted", 0, <<>>)
             ELSE RespondQuiz(r, existingAttempt,
                              [n \in 1..Len(quiz.questions) |->
                                 LinkQuestion(quiz.questions[n])])
        ELSE UNCHANGED response /\ req' = [req EXCEPT ![r].pc = "tstart_create",
                                ![r].doc = NewTokenAttempt(email, now)]
  /\ UNCHANGED <<now, quiz, attempts, finalizeCount, auth>>

(* uniqueToken: { unique: true }: the index rejects a second document  *)
(* with the same token at insert time                                   *)
DuplicateKey_NoIndex(doc) == FALSE

DuplicateKey(doc) ==
  \E i \in 1..Len(attempts) : HasToken(doc.uniqueToken, attempts[i])

AttemptStart_Create(r) ==
  /\ req[r].pc = "tstart_create"
  /\ Len(attempts) < MaxAttempts
  /\ IF DuplicateKey(req[r].doc)
     THEN /\ Respond(r, 400, "E11000 duplicate key", 0, <<>>)
          /\ UNCHANGED attempts
     ELSE /\ attempts' = Append(attempts, req[r].doc)
          /\ RespondQuiz(r, Len(attempts) + 1,
                         [n \in 1..Len(quiz.questions) |->
                            LinkQuestion(quiz.questions[n])])
  /\ UNCHANGED <<now, quiz, finalizeCount, auth>>

(* ---------------------------- grading --------------------------------- *)
normalizeMCQAnswer(s) ==
  CASE s = "a" -> "A"
    [] s = "b" -> "B"
    [] s = "c" -> "C"
    [] s = "d" -> "D"
    [] s = "e" -> "E"
    [] s = "x" -> "X"
    [] s = "y" -> "Y"
    [] s = "p" -> "P"
    [] s = "q" -> "Q"
    [] s = "r" -> "R"
    [] s = "t" -> "T"
    [] OTHER -> s

LetterIndex(s) ==
  CASE s = "A" -> 1
    [] s = "B" -> 2
    [] s = "C" -> 3
    [] s = "D" -> 4
    [] OTHER -> 0

OptionAt(options, i) == IF i \in 1..Len(options) THEN options[i] ELSE ""

StudentAnswerOf(formattedAnswers, qId) ==
  LET hits == {i \in 1..Len(formattedAnswers) : formattedAnswers[i].questionId = qId}
  IN IF hits = {} THEN ""
     ELSE formattedAnswers[CHOOSE i \in hits : \A j \in hits : i <= j].studentAnswer

MatchesMCQ(question, studentAnswer) ==
  LET sAns == normalizeMCQAnswer(studentAnswer)
      cAns == normalizeMCQAnswer(question.answer)
      byLetterOfCorrect ==
        /\ LetterIndex(cAns) # 0
        /\ sAns = normalizeMCQAnswer(OptionAt(question.options, LetterIndex(cAns)))
      byLetterOfStudent ==
        /\ LetterIndex(sAns) # 0
        /\ normalizeMCQAnswer(OptionAt(question.options, LetterIndex(sAns))) = cAns
  IN \/ sAns = cAns
     \/ Len(question.options) > 0 /\ (byLetterOfCorrect \/ byLetterOfStudent)

(* try { aiGrade = await gradeShortAnswer(..) } catch (e) { fallback }:    *)
(* a throw leaves grade at { isCorrect: false, marks: 0 }                 *)
CatchGraderError_Rethrown(g) == g

CatchGraderError(g) ==
  IF g.threw THEN [threw |-> FALSE, isCorrect |-> FALSE, marks |-> 0] ELSE g

(* an error of the grader escapes the grading loop *)
GraderThrew(questions, ai) ==
  \E i \in 1..Len(questions) :
    questions[i].type = "short-answer" /\ CatchGraderError(ai[i]).threw

GradeQuestion(question, formattedAnswers, aiGrade) ==
  LET studentAnswer == StudentAnswerOf(formattedAnswers, question.id)
      isCorrect == IF question.type = "short-answer"
                   THEN CatchGraderError(aiGrade).isCorrect
                   ELSE MatchesMCQ(question, studentAnswer)
      marks == IF question.type = "short-answer"
               THEN CatchGraderError(aiGrade).marks
               ELSE (IF isCorrect THEN (IF question.marks = 0 THEN 1 ELSE question.marks)
                     ELSE 0)
      feedback == IF question.type = "short-answer"
                  THEN (IF aiGrade.threw THEN "AI Grading error fallback." ELSE "ai")
                  ELSE (IF isCorrect THEN "Optimal response." ELSE "Response mismatch.")
  IN [questionId |-> question.id, type |-> question.type,
      options |-> question.options, studentAnswer |-> studentAnswer,
      correctAnswer |-> question.answer, isCorrect |-> isCorrect,
      marks |-> marks,
      explanation |-> (IF question.explanation # "" THEN question.explanation
                       ELSE feedback)]

finalQuestionResults(questions, formattedAnswers, ai) ==
  [i \in 1..Len(questions) |-> GradeQuestion(questions[i], formattedAnswers, ai[i])]

RECURSIVE totalScore(_)
totalScore(results) ==
  IF results = <<>> THEN 0 ELSE Head(results).marks + totalScore(Tail(results))

Percentage(score, outOf) == IF outOf > 0 THEN <<score * 100, outOf>> ELSE <<0, 1>>

gradeQuizAttempt(questions, answers, ai) ==
  LET gradedAnswers == finalQuestionResults(questions, answers, ai)
  IN [gradedAnswers |-> gradedAnswers,
      totalMarks |-> totalScore(gradedAnswers),
      maxMarks |-> SumMarks(questions),
      percentage |-> Percentage(totalScore(gradedAnswers), SumMarks(questions))]

CastAnswer(a) ==
  [questionId |-> a.questionId, type |-> "undef", options |-> <<>>,
   studentAnswer |-> a.studentAnswer, correctAnswer |-> "undef",
   isCorrect |-> FALSE, marks |-> Null, explanation |-> "undef"]

CastAnswers(answers) == [i \in 1..Len(answers) |-> CastAnswer(answers[i])]

(* ------------------- POST /quiz/save-progress ------------------------- *)
OwnedLive_StatusIgnored(id, e) ==
  /\ id \in 1..Len(attempts)
  /\ attempts[id].email = e

OwnedLive(id, e) ==
  /\ id \in 1..Len(attempts)
  /\ attempts[id].email = e
  /\ attempts[id].status \in LiveStatuses

SaveProgress_Request(r, in) ==
  /\ req[r].pc = "idle"
  /\ \E e \in in.emails, id \in in.ids \cup {0}, answers \in in.payloads,
        m \in in.missing :
       /\ m <=> id = 0
       /\ req' = [req EXCEPT ![r] =
                 [NewReq("quiz/save-progress", "save_find", e) EXCEPT
                    !.attemptId = id, !.answers = answers, !.missing = m]]
  /\ response' = NoResponse
  /\ UNCHANGED <<now, quiz, attempts, finalizeCount, auth>>

SaveProgress_Find(r) ==
  /\ req[r].pc = "save_find"
  /\ IF MissingInput(req[r])
     THEN Respond(r, 400, "Attempt ID is required", 0, <<>>)
     ELSE IF ~OwnedLive(req[r].attemptId, req[r].email)
     THEN Respond(r, 404, "Attempt not found or already submitted", 0, <<>>)
     ELSE LET attempt == attempts[req[r].attemptId]
          IN UNCHANGED response /\ req' = [req EXCEPT ![r].pc = "save_save",
                                ![r].loaded = attempt,
                                ![r].doc = [attempt EXCEPT
                                   !.answers = CastAnswers(req[r].answers),
                                   !.timeSpent = FloorSeconds(now - attempt.startedAt)]]
  /\ UNCHANGED <<now, quiz, attempts, finalizeCount, auth>>

SaveProgress_Save(r) ==
  /\ req[r].pc = "save_save"
  /\ attempts' = SaveDoc(req[r].attemptId, req[r].doc,
                         ModifiedPaths(req[r].loaded, req[r].doc,
                                       {"answers", "timeSpent"}))
  /\ Respond(r, 200, "Progress saved successfully", req[r].attemptId, <<>>)
  /\ UNCHANGED <<now, quiz, finalizeCount, auth>>

(* ------------------- POST /quiz/submit (identity-based) --------------- *)
SubmitStatus_ReasonIgnored(reason) == "submitted"

SubmitStatus(reason) == IF reason # "" THEN "blocked" ELSE "submitted"

SubmitPaths ==
  {"answers", "totalMarks", "percentage", "status", "violationReason",
   "submittedAt", "isAutoSubmit", "timeSpent"}

QuizSubmit_Request(r, in) ==
  /\ req[r].pc = "idle"
  /\ \E e \in in.emails, id \in in.ids \cup {0}, answers \in in.payloads,
        reason \in in.reasons, auto \in in.autos, kind \in in.kinds,
        m \in in.missing :
       /\ m <=> id = 0
       /\ kind # "list" => answers = <<>>
       /\ req' = [req EXCEPT ![r] =
                 [NewReq("quiz/submit", "submit_find", e) EXCEPT
                    !.attemptId = id, !.answers = answers,
                    !.reason = reason, !.isAutoSubmit = auto,
                    !.kind = kind, !.missing = m]]
  /\ response' = NoResponse
  /\ UNCHANGED <<now, quiz, attempts, finalizeCount, auth>>

QuizSubmit_Find(r) ==
  /\ req[r].pc = "submit_find"
  /\ IF MissingInput(req[r])
     THEN Respond(r, 400, "Attempt ID is required", 0, <<>>)
     ELSE IF ~OwnedLive(req[r].attemptId, req[r].email)
     THEN Respond(r, 404, "Attempt not found or already submitted", 0, <<>>)
     ELSE UNCHANGED response /\ req' = [req EXCEPT ![r].pc = "submit_grade",
                             ![r].loaded = attempts[req[r].attemptId],
                             ![r].doc = attempts[req[r].attemptId]]
  /\ UNCHANGED <<now, quiz, attempts, finalizeCount, auth>>

(* the attempt as POST /quiz/submit leaves it before attempt.save() *)
QuizSubmitDoc(attempt, rq, ai, t) ==
  LET results == finalQuestionResults(quiz.questions, FormattedAnswers(rq), ai)
      score == totalScore(results)
  IN [attempt EXCEPT
        !.answers = results,
        !.totalMarks = score,
        !.percentage = Percentage(score, quiz.totalMarks),
        !.status = SubmitStatus(rq.reason),
        !.violationReason = rq.reason,
        !.submittedAt = t,
        !.isAutoSubmit = rq.isAutoSubmit,
        !.timeSpent = FloorSeconds(t - attempt.startedAt)]

(* the grading loop has its grades: ai[i] is what gradeShortAnswer did   *)
(* for question i; waited says whether a call ended by its timeout       *)
QuizSubmit_Graded(r, ai, waited) ==
  IF GraderThrew(quiz.questions, ai)
  THEN Respond(r, 500, "Failed to submit quiz", 0, <<>>)
  ELSE UNCHANGED response /\ req' = [req EXCEPT ![r].pc = "submit_save",
                     ![r].ai = ai, ![r].waited = waited,
                     ![r].doc = QuizSubmitDoc(req[r].doc, req[r], ai, now)]

QuizSubmit_Grade(r, in) ==
  /\ req[r].pc = "submit_grade"
  /\ \E ai \in [1..Len(quiz.questions) -> in.grades] :
       QuizSubmit_Graded(r, ai, FALSE)
  /\ UNCHANGED <<now, quiz, attempts, finalizeCount, auth>>

QuizSubmit_Save(r) ==
  /\ req[r].pc = "submit_save"
  /\ attempts' = SaveDoc(req[r].attemptId, req[r].doc,
                         ModifiedPaths(req[r].loaded, req[r].doc, SubmitPaths))
  /\ finalizeCount' = [finalizeCount EXCEPT ![req[r].attemptId] = @ + 1]
  /\ Respond(r, 200, "Quiz submitted successfully", req[r].attemptId,
             req[r].doc.answers)
  /\ UNCHANGED <<now, quiz, auth>>

(* await gradingService.gradeShortAnswer(..) has not returned yet *)
QuizSubmit_GraderPending(r) ==
  /\ req[r].pc = "submit_grade"
  /\ \E i \in 1..Len(quiz.questions) : quiz.questions[i].type = "short-answer"
  /\ Goto(r, "submit_wait")
  /\ UNCHANGED <<now, quiz, attempts, finalizeCount, auth>>

(* the grader call carries a bounded timeout: a call that does not return *)
(* is abandoned and rejects like any other failure of the grader          *)
TimedOutGrades ==
  [i \in 1..Len(quiz.questions) |->
     [threw |-> TRUE, isCorrect |-> FALSE, marks |-> 0]]

gradeShortAnswer_Timeout(r) ==
  /\ req[r].pc = "submit_wait"
  /\ QuizSubmit_Graded(r, TimedOutGrades, TRUE)
  /\ UNCHANGED <<now, quiz, attempts, finalizeCount, auth>>

(* ------------------- POST /attempt/submit (token-based) --------------- *)
TokenSubmitAccepts_OnlyFinalChecked(a) == a.status \notin {"submitted", "graded"}

TokenSubmitAccepts(a) == a.status = "started"

TokenSubmitPaths ==
  {"answers", "totalMarks", "maxMarks", "percentage", "status",
   "submittedAt", "gradedAt"}

AttemptSubmit_Request(r, in) ==
  /\ req[r].pc = "idle"
  /\ \E id \in in.ids \cup {0}, answers \in in.payloads,
        reason \in in.reasons, kind \in in.kinds, m \in in.missing :
       /\ m <=> id = 0
       /\ kind # "list" => answers = <<>>
       /\ req' = [req EXCEPT ![r] =
                 [NewReq("attempt/submit", "tsubmit_find", "") EXCEPT
                    !.attemptId = id, !.answers = answers, !.reason = reason,
                    !.kind = kind, !.missing = m]]
  /\ response' = NoResponse
  /\ UNCHANGED <<now, quiz, attempts, finalizeCount, auth>>

AttemptSubmit_Find(r) ==
  /\ req[r].pc = "tsubmit_find"
  /\ IF MissingInput(req[r]) \/ req[r].kind = "missing"
     THEN Respond(r, 400, "Attempt ID and answers are required", 0, <<>>)
     ELSE IF req[r].attemptId \notin 1..Len(attempts)
     THEN Respond(r, 404, "Quiz attempt not found", 0, <<>>)
     ELSE IF ~TokenSubmitAccepts(attempts[req[r].attemptId])
     THEN Respond(r, 400, "Quiz already submitted", 0, <<>>)
     ELSE UNCHANGED response /\ req' = [req EXCEPT ![r].pc = "tsubmit_grade",
                             ![r].loaded = attempts[req[r].attemptId],
                             ![r].doc = attempts[req[r].attemptId]]
  /\ UNCHANGED <<now, quiz, attempts, finalizeCount, auth>>

(* the attempt as POST /attempt/submit leaves it before attempt.save() *)
AttemptSubmitDoc(attempt, rq, ai, t) ==
  LET grading == gradeQuizAttempt(quiz.questions, FormattedAnswers(rq), ai)
  IN [attempt EXCEPT
        !.answers = grading.gradedAnswers,
        !.totalMarks = grading.totalMarks,
        !.maxMarks = grading.maxMarks,
        !.percentage = grading.percentage,
        !.status = "graded",
        !.submittedAt = t,
        !.gradedAt = t]

AttemptSubmit_Grade(r, in) ==
  /\ req[r].pc = "tsubmit_grade"
  /\ \E ai \in [1..Len(quiz.questions) -> in.grades] :
       IF GraderThrew(quiz.questions, ai)
       THEN Respond(r, 400, "grading failed", 0, <<>>)
       ELSE UNCHANGED response /\ req' = [req EXCEPT ![r].pc = "tsubmit_save",
                          ![r].ai = ai,
                          ![r].doc = AttemptSubmitDoc(req[r].doc, req[r], ai, now)]
  /\ UNCHANGED <<now, quiz, attempts, finalizeCount, auth>>

AttemptSubmit_Save(r) ==
  /\ req[r].pc = "tsubmit_save"
  /\ attempts' = SaveDoc(req[r].attemptId, req[r].doc,
                         ModifiedPaths(req[r].loaded, req[r].doc, TokenSubmitPaths))
  /\ finalizeCount' = [finalizeCount EXCEPT ![req[r].attemptId] = @ + 1]
  /\ Respond(r, 200, "Quiz submitted successfully", req[r].attemptId,
             req[r].doc.answers)
  /\ UNCHANGED <<now, quiz, auth>>

(* ------------------- GET /quiz/:quizId (quiz details) ----------------- *)
QuizGet_Request(r, in) ==
  /\ req[r].pc = "idle"
  /\ \E e \in in.emails : req' = [req EXCEPT ![r] = NewReq("quiz/get", "get_quiz", e)]
  /\ response' = NoResponse
  /\ UNCHANGED <<now, quiz, attempts, finalizeCount, auth>>

(* Quiz.findOne, then quiz.isAccessible(): 403 carries startsAt/endedAt *)
QuizGet_FindQuiz(r) ==
  /\ req[r].pc = "get_quiz"
  /\ IF req[r].email \notin quiz.sharedWith
     THEN Respond(r, 404, "Quiz not found or not shared with you", 0, <<>>)
     ELSE LET accessibility == isAccessible(quiz, now)
          IN IF ~accessibility.accessible
             THEN /\ req' = [req EXCEPT ![r] = IdleReq]
                  /\ response' = [NoResponse EXCEPT
                                    !.op = req[r].op, !.email = req[r].email,
                                    !.code = 403, !.msg = "not accessible",
                                    !.access = accessibility]
             ELSE /\ req' = [req EXCEPT ![r].pc = "get_attempt",
                                        ![r].access = accessibility]
                  /\ UNCHANGED response
  /\ UNCHANGED <<now, quiz, attempts, finalizeCount, auth>>

(* QuizAttempt.findOne(..).sort('-createdAt'), then the 200 response *)
QuizGet_FindAttempt(r) ==
  /\ req[r].pc = "get_attempt"
  /\ LET mine == {i \in 1..Len(attempts) : attempts[i].email = req[r].email}
         existingAttempt == IF mine = {} THEN 0
                            ELSE CHOOSE i \in mine : \A j \in mine : j <= i
     IN /\ req' = [req EXCEPT ![r] = IdleReq]
        /\ response' = [NoResponse EXCEPT
                          !.op = req[r].op, !.email = req[r].email,
                          !.code = 200, !.msg = "quiz", !.id = existingAttempt,
                          !.access = req[r].access,
                          !.questions = [n \in 1..Len(quiz.questions) |->
                                           QuizDetailsQuestion(quiz.questions[n])]]
  /\ UNCHANGED <<now, quiz, attempts, finalizeCount, auth>>

(* ------------------- GET /attempt/:token (quiz by link) --------------- *)
AttemptGet_Request(r, in) ==
  /\ req[r].pc = "idle"
  /\ \E e \in in.emails :
       req' = [req EXCEPT ![r] = NewReq("attempt/get", "tget_existing", e)]
  /\ response' = NoResponse
  /\ UNCHANGED <<now, quiz, attempts, finalizeCount, auth>>

(* QuizAttempt.findOne({ uniqueToken }).populate('quizId') *)
AttemptGet_FindExisting(r) ==
  /\ req[r].pc = "tget_existing"
  /\ LET existingAttempt == FindOne({i \in 1..Len(attempts) : HasToken(LinkToken(req[r].email), attempts[i])})
     IN IF existingAttempt = 0
        THEN Goto(r, "tget_quiz")
        ELSE IF attempts[existingAttempt].status \in {"submitted", "graded"}
        THEN Respond(r, 400, "This quiz has already been submitted", 0, <<>>)
        ELSE IF ~isAccessible(quiz, now).accessible
        THEN Respond(r, 403, "not accessible", 0, <<>>)
        ELSE RespondQuiz(r, existingAttempt,
                         [n \in 1..Len(quiz.questions) |->
                            LinkQuestion(quiz.questions[n])])
  /\ UNCHANGED <<now, quiz, attempts, finalizeCount, auth>>

(* Quiz.findById: the quiz without its questions, before the form is sent *)
AttemptGet_FindQuiz(r) ==
  /\ req[r].pc = "tget_quiz"
  /\ IF ~isAccessible(quiz, now).accessible
     THEN Respond(r, 403, "not accessible", 0, <<>>)
     ELSE Respond(r, 200, "quiz", 0, <<>>)
  /\ UNCHANGED <<now, quiz, attempts, finalizeCount, auth>>

(* ------------------- a rejected await (store failure) ----------------- *)
(* catch (error) { res.status(400 | 500).json(..) }: the token routes     *)
(* answer 400, the identity routes 500                                    *)
CatchCode(op) ==
  IF op \in {"attempt/get", "attempt/start", "attempt/submit"} THEN 400 ELSE 500

(* the handler is past its input validation and waits on a promise *)
AtAwait(rq) ==
  /\ rq.pc # "idle"
  /\ ~MissingInput(rq)
  /\ ~(rq.pc = "tsubmit_find" /\ rq.kind = "missing")

StoreError_Unhandled(r) ==
  /\ AtAwait(req[r])
  /\ req[r].pc # "failed"
  /\ req' = [req EXCEPT ![r].pc = "failed"]
  /\ UNCHANGED <<now, quiz, attempts, response, finalizeCount, auth>>

StoreError(r) ==
  /\ AtAwait(req[r])
  /\ Respond(r, CatchCode(req[r].op), "store error", 0, <<>>)
  /\ UNCHANGED <<now, quiz, attempts, finalizeCount, auth>>

(* ---------------------------- specifications -------------------------- *)
AllIdle == \A r \in Reqs : req[r].pc = "idle"

Request(r, in) ==
  \/ QuizStart_Request(r, in)
  \/ AttemptStart_Request(r, in)
  \/ SaveProgress_Request(r, in)
  \/ QuizSubmit_Request(r, in)
  \/ AttemptSubmit_Request(r, in)

Step(r, in) ==
  \/ QuizStart_FindQuiz(r)
  \/ QuizStart_FindSubmitted(r)
  \/ QuizStart_FindExisting(r)
  \/ QuizStart_ExpireSave(r)
  \/ QuizStart_CreateSave(r)
  \/ AttemptStart_FindQuiz(r)
  \/ AttemptStart_FindExisting(r)
  \/ AttemptStart_Create(r)
  \/ SaveProgress_Find(r)
  \/ SaveProgress_Save(r)
  \/ QuizSubmit_Find(r)
  \/ QuizSubmit_Grade(r, in)
  \/ QuizSubmit_Save(r)
  \/ AttemptSubmit_Find(r)
  \/ AttemptSubmit_Grade(r, in)
  \/ AttemptSubmit_Save(r)

(* requests interleave at their await points *)
FirstIdle(r) == \A q \in 1..(r - 1) : req[q].pc # "idle"

Next ==
  \/ Tick(TickSteps)
  \/ \E r \in Reqs : (FirstIdle(r) /\ Request(r, RaceInputs)) \/ Step(r, RaceInputs)

InitRace == Init /\ quiz = BaseQuiz

Spec == InitRace /\ [][Next]_vars

(* one request at a time: every handler runs from request to response     *)
(* with no other request and no passage of time in between                *)
NextAtomic ==
  \/ AllIdle /\ Tick(TickSteps)
  \/ AllIdle /\ Request(1, MainInputs)
  \/ Step(1, MainInputs)

SpecAtomic == Init /\ [][NextAtomic]_vars

(* the accessibility window: GET /quiz/:quizId over scheduled and         *)
(* unscheduled quizzes, dates at midnight of day 1..MaxDays (or null),    *)
(* times of day "00:01" / "00:02" (or null), and instants around every    *)
(* boundary.  setHours is taken in UTC.                                   *)
AccessDates == {Null} \cup {d * DayMs : d \in 1..MaxDays}

AccessQuizzes ==
  { [BaseQuiz EXCEPT !.isScheduled = s, !.startDate = sd, !.endDate = ed,
                     !.startTime = st, !.endTime = et] :
      s \in BOOLEAN, sd \in AccessDates, ed \in AccessDates,
      st \in {NoTime, <<0, 1>>}, et \in {NoTime, <<0, 2>>} }

AccessInstants ==
  { d * DayMs + o : d \in 1..MaxDays,
                    o \in {0 - 1, 0, MinuteMs - 1, MinuteMs, 2 * MinuteMs,
                           2 * MinuteMs + 1, DayMs - 1} }

AccessInputs ==
  [emails |-> {"s1", "s2"}, payloads |-> {}, reasons |-> {}, autos |-> {},
   ids |-> {}, grades |-> {}, kinds |-> {"list"}, missing |-> {FALSE}]

InitAccess ==
  /\ now \in AccessInstants
  /\ quiz \in AccessQuizzes
  /\ attempts = <<>>
  /\ req = [r \in Reqs |-> IdleReq]
  /\ response = NoResponse
  /\ finalizeCount = [i \in 1..MaxAttempts |-> 0]
  /\ auth = RegisteredAccounts

NextAccess ==
  \/ QuizGet_Request(1, AccessInputs)
  \/ QuizGet_FindQuiz(1)
  \/ QuizGet_FindAttempt(1)

SpecAccess == InitAccess /\ [][NextAccess]_vars

(* grading: begin and submit through both flows, one request at a time,  *)
(* with every outcome of the free-text grader and right and wrong         *)
(* objective answers; no time passes                                      *)
GradingPayloads ==
  Payloads \cup { << [questionId |-> 1, studentAnswer |-> "y"],
                     [questionId |-> 2, studentAnswer |-> "t"] >>,
                  << [questionId |-> 9, studentAnswer |-> "y"],
                     [questionId |-> 1, studentAnswer |-> "x"] >> }

GradingInputs ==
  [emails |-> {"s1"}, payloads |-> GradingPayloads, reasons |-> {""},
   autos |-> {FALSE}, ids |-> 1..MaxAttempts, grades |-> GraderOutcomes,
   kinds |-> {"list", "missing", "text"}, missing |-> {FALSE}]

NextGrading ==
  \/ AllIdle /\ QuizStart_Request(1, GradingInputs)
  \/ AllIdle /\ AttemptStart_Request(1, GradingInputs)
  \/ AllIdle /\ QuizSubmit_Request(1, GradingInputs)
  \/ AllIdle /\ AttemptSubmit_Request(1, GradingInputs)
  \/ QuizStart_FindQuiz(1)
  \/ QuizStart_FindSubmitted(1)
  \/ QuizStart_FindExisting(1)
  \/ QuizStart_CreateSave(1)
  \/ AttemptStart_FindQuiz(1)
  \/ AttemptStart_FindExisting(1)
  \/ AttemptStart_Create(1)
  \/ QuizSubmit_Find(1)
  \/ QuizSubmit_Grade(1, GradingInputs)
  \/ QuizSubmit_Save(1)
  \/ AttemptSubmit_Find(1)
  \/ AttemptSubmit_Grade(1, GradingInputs)
  \/ AttemptSubmit_Save(1)

SpecGrading == InitRace /\ [][NextGrading]_vars

(* answer matching: an objective question with five options whose         *)
(* canonical answer is a letter or an option's text, answered with a      *)
(* letter or a text through POST /quiz/start and POST /quiz/submit        *)
MatchOptions == <<"x", "y", "p", "q", "r">>

MatchAnswers == {"A", "D", "E", "x", "q", "r"}

MatchQuizzes ==
  { [BaseQuiz EXCEPT
       !.questions = << [id |-> 1, type |-> "mcq", options |-> MatchOptions,
                         answer |-> a, marks |-> 2, explanation |-> ""] >>,
       !.numQuestions = 1, !.totalMarks = 2] : a \in MatchAnswers }

MatchInputs ==
  [emails |-> {"s1"},
   payloads |-> { << [questionId |-> 1, studentAnswer |-> a] >> :
                    a \in MatchAnswers \cup {"a", "e"} },
   reasons |-> {""}, autos |-> {FALSE}, ids |-> {1}, grades |-> FullMarks,
   kinds |-> {"list"}, missing |-> {FALSE}]

InitMatch ==
  /\ now = 0
  /\ quiz \in MatchQuizzes
  /\ attempts = <<>>
  /\ req = [r \in Reqs |-> IdleReq]
  /\ response = NoResponse
  /\ finalizeCount = [i \in 1..MaxAttempts |-> 0]
  /\ auth = RegisteredAccounts

NextMatch ==
  \/ AllIdle /\ QuizStart_Request(1, MatchInputs)
  \/ AllIdle /\ QuizSubmit_Request(1, MatchInputs)
  \/ QuizStart_FindQuiz(1)
  \/ QuizStart_FindSubmitted(1)
  \/ QuizStart_FindExisting(1)
  \/ QuizStart_CreateSave(1)
  \/ QuizSubmit_Find(1)
  \/ QuizSubmit_Grade(1, MatchInputs)
  \/ QuizSubmit_Save(1)

SpecMatch == InitMatch /\ [][NextMatch]_vars

(* the student-facing routes, one request at a time and no passage of   *)
(* time, for a student on the roster (s1) and one who is not (s2), with *)
(* and without the required inputs                                      *)
StudentInputs ==
  [emails |-> {"s1", "s2"}, payloads |-> Payloads, reasons |-> {""},
   autos |-> {FALSE}, ids |-> 1..MaxAttempts, grades |-> FullMarks,
   kinds |-> {"list"}, missing |-> BOOLEAN]

NextStudent ==
  \/ AllIdle /\ QuizGet_Request(1, StudentInputs)
  \/ AllIdle /\ AttemptGet_Request(1, StudentInputs)
  \/ AllIdle /\ Request(1, StudentInputs)
  \/ QuizGet_FindQuiz(1)
  \/ QuizGet_FindAttempt(1)
  \/ AttemptGet_FindExisting(1)
  \/ AttemptGet_FindQuiz(1)
  \/ QuizStart_FindQuiz(1)
  \/ QuizStart_FindSubmitted(1)
  \/ QuizStart_FindExisting(1)
  \/ QuizStart_CreateSave(1)
  \/ AttemptStart_FindQuiz(1)
  \/ AttemptStart_FindExisting(1)
  \/ AttemptStart_Create(1)
  \/ SaveProgress_Find(1)
  \/ SaveProgress_Save(1)
  \/ QuizSubmit_Find(1)
  \/ QuizSubmit_Grade(1, StudentInputs)
  \/ QuizSubmit_Save(1)
  \/ AttemptSubmit_Find(1)
  \/ AttemptSubmit_Grade(1, StudentInputs)
  \/ AttemptSubmit_Save(1)

SpecStudent == InitRace /\ [][NextStudent]_vars

(* begin, saveProgress and submit of both flows, one request at a time,   *)
(* where every await may reject and the grader may throw.  A pending      *)
(* promise is eventually settled and its continuation eventually run by   *)
(* the event loop: weak fairness on the steps of the request.  A begin    *)
(* arrives only while the store has room for its attempt.                 *)
LiveInputs ==
  [emails |-> {"s1"}, payloads |-> {p \in Payloads : p # <<>>},
   reasons |-> {""}, autos |-> {FALSE}, ids |-> 1..MaxAttempts,
   grades |-> GraderOutcomes, kinds |-> {"list", "missing"},
   missing |-> BOOLEAN]

LiveStep(r) ==
  \/ QuizStart_FindQuiz(r)
  \/ QuizStart_FindSubmitted(r)
  \/ QuizStart_FindExisting(r)
  \/ QuizStart_CreateSave(r)
  \/ AttemptStart_FindQuiz(r)
  \/ AttemptStart_FindExisting(r)
  \/ AttemptStart_Create(r)
  \/ SaveProgress_Find(r)
  \/ SaveProgress_Save(r)
  \/ QuizSubmit_Find(r)
  \/ QuizSubmit_Grade(r, LiveInputs)
  \/ QuizSubmit_Save(r)
  \/ AttemptSubmit_Find(r)
  \/ AttemptSubmit_Grade(r, LiveInputs)
  \/ AttemptSubmit_Save(r)
  \/ StoreError(r)

NextLive ==
  \/ AllIdle /\ Len(attempts) < MaxAttempts /\ QuizStart_Request(1, LiveInputs)
  \/ AllIdle /\ Len(attempts) < MaxAttempts /\ AttemptStart_Request(1, LiveInputs)
  \/ AllIdle /\ SaveProgress_Request(1, LiveInputs)
  \/ AllIdle /\ QuizSubmit_Request(1, LiveInputs)
  \/ AllIdle /\ AttemptSubmit_Request(1, LiveInputs)
  \/ LiveStep(1)

SpecLive == InitRace /\ [][NextLive]_vars /\ WF_vars(LiveStep(1))

(* ------------------- teacher routes: save, update, share -------------- *)
(* values of a JSON body as JavaScript sees them: a number, a string of   *)
(* decimal digits, or undefined                                           *)
JsNumber(n) == [kind |-> "number", n |-> n, s |-> <<>>]

JsString(s) == [kind |-> "string", n |-> 0, s |-> s]

JsUndefined == [kind |-> "undefined", n |-> 0, s |-> <<>>]

Truthy(x) ==
  CASE x.kind = "number" -> x.n # 0
    [] x.kind = "string" -> x.s # <<>>
    [] OTHER -> FALSE

(* x || d *)
JsOr(x, d) == IF Truthy(x) THEN x ELSE d

RECURSIVE Digits(_)
Digits(n) == IF n < 10 THEN <<n>> ELSE Append(Digits(n \div 10), n % 10)

JsToString(x) == IF x.kind = "number" THEN Digits(x.n) ELSE x.s

(* a + b: addition of two numbers, concatenation as soon as one is a string *)
JsPlus(a, b) ==
  IF a.kind = "number" /\ b.kind = "number"
  THEN JsNumber(a.n + b.n)
  ELSE JsString(JsToString(a) \o JsToString(b))

RECURSIVE DigitsValue(_)
DigitsValue(s) ==
  IF s = <<>> THEN 0
  ELSE DigitsValue(SubSeq(s, 1, Len(s) - 1)) * 10 + s[Len(s)]

(* the cast of a schema path of type Number *)
CastNumber(x) == IF x.kind = "number" THEN x.n ELSE DigitsValue(x.s)

(* validatedQuestions: marks: q.marks || 1 *)
ValidatedQuestion(q) == [q EXCEPT !.marks = JsOr(q.marks, JsNumber(1))]

ValidatedQuestions(questions) ==
  [i \in 1..Len(questions) |-> ValidatedQuestion(questions[i])]

(* validatedQuestions.reduce((sum, q) => sum + (q.marks || 1), 0) *)
RECURSIVE ReduceMarks(_, _)
ReduceMarks(qs, sum) ==
  IF qs = <<>> THEN sum
  ELSE ReduceMarks(Tail(qs), JsPlus(sum, JsOr(Head(qs).marks, JsNumber(1))))

(* the questions as the schema stores them *)
CastQuestions(questions) ==
  [i \in 1..Len(questions) |->
     [id |-> i, type |-> questions[i].type, options |-> questions[i].options,
      answer |-> questions[i].answer,
      marks |-> CastNumber(questions[i].marks),
      explanation |-> questions[i].explanation]]

(* quizSchema.pre('save') *)
PreSave(q) ==
  [q EXCEPT !.numQuestions = Len(q.questions),
            !.totalMarks = SumMarks(q.questions)]

RawMarks == {JsUndefined, JsNumber(2), JsNumber(3), JsString(<<2>>), JsString(<<3>>)}

RawQuestions ==
  {[type |-> "mcq", options |-> <<"x", "y">>, answer |-> "A", marks |-> m,
    explanation |-> ""] : m \in RawMarks}

BodyQuestions ==
  UNION {[1..n -> RawQuestions] : n \in 0..MaxQuestions}

ExistingStudents == {"s1", "s2"}

RespondTeacher(op, code) ==
  response' = [NoResponse EXCEPT !.op = op, !.code = code]

(* POST /save *)
SaveQuiz ==
  /\ \E questions \in BodyQuestions :
       IF Len(questions) = 0
       THEN /\ RespondTeacher("save", 400)
            /\ UNCHANGED quiz
       ELSE LET validatedQuestions == ValidatedQuestions(questions)
                totalMarks == ReduceMarks(validatedQuestions, JsNumber(0))
                quizData == [BaseQuiz EXCEPT
                               !.questions = CastQuestions(validatedQuestions),
                               !.numQuestions = Len(validatedQuestions),
                               !.totalMarks = CastNumber(totalMarks),
                               !.sharedWith = {}]
            IN /\ quiz' = PreSave(quizData)
               /\ RespondTeacher("save", 200)
  /\ UNCHANGED <<now, attempts, req, finalizeCount, auth>>

(* PUT /:id: Quiz.findOneAndUpdate(.., updateData, { runValidators }) *)
UpdateQuiz(in) ==
  /\ \E withQuestions \in BOOLEAN, questions \in in.questions,
        duration \in in.durations :
       IF ~withQuestions
       THEN /\ questions = <<>>
            /\ quiz' = [quiz EXCEPT !.duration = duration]
            /\ RespondTeacher("update", 200)
       ELSE LET validatedQuestions == ValidatedQuestions(questions)
                totalMarks == ReduceMarks(validatedQuestions, JsNumber(0))
            IN IF Len(validatedQuestions) < 1
               THEN /\ RespondTeacher("update", 400)
                    /\ UNCHANGED quiz
               ELSE /\ quiz' = [quiz EXCEPT
                                  !.duration = duration,
                                  !.questions = CastQuestions(validatedQuestions),
                                  !.numQuestions = Len(validatedQuestions),
                                  !.totalMarks = CastNumber(totalMarks)]
                    /\ RespondTeacher("update", 200)
  /\ UNCHANGED <<now, attempts, req, finalizeCount, auth>>

(* POST /share: push the emails of known students, then quiz.save() *)
ShareQuiz ==
  /\ \E studentEmails \in SUBSET {"s1", "s2", "s3"} :
       /\ quiz' = PreSave([quiz EXCEPT
                             !.sharedWith = @ \cup (studentEmails \cap ExistingStudents)])
       /\ RespondTeacher("share", 200)
  /\ UNCHANGED <<now, attempts, req, finalizeCount, auth>>

QuizBodies == [questions |-> BodyQuestions, durations |-> {1, 2}]

NextQuiz ==
  \/ SaveQuiz
  \/ UpdateQuiz(QuizBodies)
  \/ ShareQuiz

SpecQuiz == InitRace /\ [][NextQuiz]_vars

(* begins of both flows interleaved at their await points, for two link *)
(* tokens                                                               *)
TokenRaceInputs ==
  [emails |-> {"s1", "s2"}, payloads |-> {<<>>}, reasons |-> {""},
   autos |-> {FALSE}, ids |-> {1}, grades |-> FullMarks,
   kinds |-> {"list"}, missing |-> {FALSE}]

NextTokenRace ==
  \E r \in Reqs :
    \/ FirstIdle(r) /\ AttemptStart_Request(r, TokenRaceInputs)
    \/ FirstIdle(r) /\ QuizStart_Request(r, TokenRaceInputs)
    \/ AttemptStart_FindQuiz(r)
    \/ AttemptStart_FindExisting(r)
    \/ AttemptStart_Create(r)
    \/ QuizStart_FindQuiz(r)
    \/ QuizStart_FindSubmitted(r)
    \/ QuizStart_FindExisting(r)
    \/ QuizStart_CreateSave(r)

SpecTokenRace == InitRace /\ [][NextTokenRace]_vars

(* attempt.isExpired() on one stored attempt of every status, started at *)
(* 0 or 500 ms with a duration of 1 or 2 minutes, at instants around     *)
(* the end of its duration                                               *)
ExpiryStatuses ==
  {"started", "submitted", "graded", "in-progress", "expired", "blocked"}

ExpiryDurations == {1, 2}

ExpiryStarts == {0, 500}

ExpiryInstants ==
  {d * MinuteMs + s + k : d \in ExpiryDurations, s \in ExpiryStarts,
                          k \in {-1, 0, 999}}

InitExpiry ==
  /\ now \in ExpiryInstants
  /\ quiz = BaseQuiz
  /\ \E status \in ExpiryStatuses, d \in ExpiryDurations, s \in ExpiryStarts :
       attempts = << [NoAttempt EXCEPT
                        !.email = "s1", !.status = status, !.duration = d,
                        !.startedAt = s,
                        !.submittedAt = (IF status \in LiveStatuses THEN Null
                                         ELSE now)] >>
  /\ req = [r \in Reqs |-> IdleReq]
  /\ response = NoResponse
  /\ finalizeCount = [i \in 1..MaxAttempts |-> 0]
  /\ auth = RegisteredAccounts

IsExpiredCall ==
  /\ response = NoResponse
  /\ response' = [NoResponse EXCEPT
                    !.op = "isExpired", !.id = 1,
                    !.msg = (IF isExpired(attempts[1], now) THEN "expired"
                             ELSE "not expired")]
  /\ UNCHANGED <<now, quiz, attempts, req, finalizeCount, auth>>

NextExpiry == IsExpiredCall

SpecExpiry == InitExpiry /\ [][NextExpiry]_vars

(* the timeRemaining getter next to isExpired(), and the identity-based   *)
(* begin on the same attempts                                             *)
TimeRemainingCall ==
  /\ AllIdle
  /\ response' = [NoResponse EXCEPT
                    !.op = "timeRemaining", !.id = 1,
                    !.timeRemaining = timeRemaining(attempts[1], now),
                    !.msg = (IF isExpired(attempts[1], now) THEN "expired"
                             ELSE "not expired")]
  /\ response' # response
  /\ UNCHANGED <<now, quiz, attempts, req, finalizeCount, auth>>

RemainingInputs ==
  [emails |-> {"s1"}, payloads |-> Payloads, reasons |-> {""},
   autos |-> {FALSE}, ids |-> 1..MaxAttempts, grades |-> FullMarks,
   kinds |-> {"list"}, missing |-> {FALSE}]

NextRemaining ==
  \/ TimeRemainingCall
  \/ AllIdle /\ QuizStart_Request(1, RemainingInputs)
  \/ QuizStart_FindQuiz(1)
  \/ QuizStart_FindSubmitted(1)
  \/ QuizStart_FindExisting(1)
  \/ QuizStart_ExpireSave(1)
  \/ QuizStart_CreateSave(1)

SpecRemaining == InitExpiry /\ [][NextRemaining]_vars

(* the quiz is edited (PUT /:id) while students begin and submit through *)
(* the identity-based routes, one request at a time                      *)
RegradeInputs ==
  [emails |-> {"s1"}, payloads |-> {p \in Payloads : p # <<>>},
   reasons |-> {""}, autos |-> {FALSE}, ids |-> 1..MaxAttempts,
   grades |-> FullMarks, kinds |-> {"list"}, missing |-> {FALSE}]

RegradeBodies ==
  [questions |-> {q \in BodyQuestions :
                    \A n \in 1..Len(q) : q[n].marks \in {JsUndefined, JsNumber(2)}},
   durations |-> {1}]

NextRegrade ==
  \/ AllIdle /\ UpdateQuiz(RegradeBodies)
  \/ AllIdle /\ QuizStart_Request(1, RegradeInputs)
  \/ AllIdle /\ QuizSubmit_Request(1, RegradeInputs)
  \/ QuizStart_FindQuiz(1)
  \/ QuizStart_FindSubmitted(1)
  \/ QuizStart_FindExisting(1)
  \/ QuizStart_CreateSave(1)
  \/ QuizSubmit_Find(1)
  \/ QuizSubmit_Grade(1, RegradeInputs)
  \/ QuizSubmit_Save(1)

SpecRegrade == InitRace /\ [][NextRegrade]_vars

(* ------------------- POST /login (student accounts) -------------------- *)
(* email.toLowerCase() on the addresses the requests use *)
LowerCase(e) == IF e = "S1" THEN "s1" ELSE IF e = "S2" THEN "s2" ELSE e

(* StudentAuth.findOne({ email }): the position of the account, 0 if none *)
FindAccount(e) ==
  IF \E i \in 1..Len(auth) : auth[i].email = e
  THEN CHOOSE i \in 1..Len(auth) :
         /\ auth[i].email = e
         /\ \A j \in 1..(i - 1) : auth[j].email # e
  ELSE 0

(* this.lockUntil && this.lockUntil > Date.now() *)
isLocked(a, t) == a.lockUntil # Null /\ a.lockUntil > t

(* this.failedAttempts += 1; if (this.failedAttempts >= 5) this.lockUntil = .. *)
incrementFailedAttempts(a, t) ==
  LET n == a.failedAttempts + 1
  IN [a EXCEPT !.failedAttempts = n,
               !.lockUntil = IF n >= MaxFailedLogins THEN t + LockMs ELSE @]

(* this.failedAttempts = 0; this.lockUntil = null *)
resetFailedAttempts(a) == [a EXCEPT !.failedAttempts = 0, !.lockUntil = Null]

(* document.save(): $set of the paths whose value differs from the loaded *)
(* one; the other paths of the stored account stay as they are            *)
SaveAccount(stored, loaded, doc) ==
  [stored EXCEPT
     !.failedAttempts = IF doc.failedAttempts # loaded.failedAttempts
                        THEN doc.failedAttempts ELSE @,
     !.lockUntil = IF doc.lockUntil # loaded.lockUntil
                   THEN doc.lockUntil ELSE @]

Login_Request(r, in) ==
  /\ req[r].pc = "idle"
  /\ \A i \in 1..Len(auth) : auth[i].failedAttempts < MaxFailedAttempts
  /\ \E e \in in.emails, ok \in in.matches, m \in in.missing :
       req' = [req EXCEPT ![r] =
                 [IdleReq EXCEPT !.op = "login", !.pc = "login_find",
                                 !.email = e, !.passwordOk = ok, !.missing = m]]
  /\ response' = NoResponse
  /\ UNCHANGED <<now, quiz, attempts, finalizeCount, auth>>

Login_Find(r) ==
  /\ req[r].pc = "login_find"
  /\ LET i == FindAccount(LowerCase(req[r].email))
     IN IF MissingInput(req[r])
        THEN Respond(r, 400, "Email and password are required", 0, <<>>)
        ELSE IF i = 0
        THEN Respond(r, 401, "Invalid credentials or account not found", 0, <<>>)
        ELSE IF isLocked(auth[i], now)
        THEN Respond(r, 423, "Account locked", 0, <<>>)
        ELSE UNCHANGED response /\ req' = [req EXCEPT ![r].pc = "login_compare",
                                  ![r].attemptId = i, ![r].account = auth[i]]
  /\ UNCHANGED <<now, quiz, attempts, finalizeCount, auth>>

(* await studentAuth.comparePassword(password), then the assignments of   *)
(* incrementFailedAttempts / resetFailedAttempts up to their save         *)
Login_Compare(r) ==
  /\ req[r].pc = "login_compare"
  /\ req' = [req EXCEPT ![r].pc = "login_save",
               ![r].doc = IF req[r].passwordOk
                          THEN resetFailedAttempts(req[r].account)
                          ELSE incrementFailedAttempts(req[r].account, now)]
  /\ UNCHANGED <<now, quiz, attempts, response, finalizeCount, auth>>

Login_Save(r) ==
  /\ req[r].pc = "login_save"
  /\ LET i == req[r].attemptId
         saved == SaveAccount(auth[i], req[r].account, req[r].doc)
     IN auth' = [auth EXCEPT ![i] =
                   [saved EXCEPT !.failedChecks =
                      IF req[r].passwordOk THEN 0 ELSE @ + 1]]
  /\ IF req[r].passwordOk
     THEN Respond(r, 200, "Login successful", 0, <<>>)
     ELSE Respond(r, 401, "Invalid credentials", 0, <<>>)
  /\ UNCHANGED <<now, quiz, attempts, finalizeCount>>

LoginInputs ==
  [emails |-> {"s1", "S1", "s2"}, matches |-> BOOLEAN, missing |-> BOOLEAN]

LoginRaceInputs == [emails |-> {"s1"}, matches |-> BOOLEAN, missing |-> {FALSE}]

LoginStep(r) ==
  \/ Login_Find(r)
  \/ Login_Compare(r)
  \/ Login_Save(r)

(* logins one at a time *)
NextLogin ==
  \/ AllIdle /\ Login_Request(1, LoginInputs)
  \/ LoginStep(1)
  \/ AllIdle /\ Tick({LockMs + 500})

SpecLogin == InitRace /\ [][NextLogin]_vars

(* logins of any number of clients, cut at every await; the half hour of *)
(* a lock passes between requests, not inside one                         *)
NextLoginRace ==
  \/ \E r \in Reqs : Login_Request(r, LoginRaceInputs) \/ LoginStep(r)
  \/ AllIdle /\ Tick({LockMs + 500})

SpecLoginRace == InitRace /\ [][NextLoginRace]_vars

(* ------------------- POST /register (student accounts) ----------------- *)
(* addresses are sequences of characters here, so that toLowerCase, trim  *)
(* and the regular expression built from the address do what they do      *)
LowerChar(c) == IF c = "A" THEN "a" ELSE IF c = "B" THEN "b" ELSE c

(* email.toLowerCase() *)
ToLowerCase(s) == [n \in 1..Len(s) |-> LowerChar(s[n])]

(* String.prototype.trim *)
RECURSIVE Trim(_)
Trim(s) ==
  IF s = <<>> THEN s
  ELSE IF Head(s) = " " THEN Trim(Tail(s))
  ELSE IF s[Len(s)] = " " THEN Trim(SubSeq(s, 1, Len(s) - 1))
  ELSE s

(* new RegExp("^" + p + "$", "i").test(s): p is not escaped, so its "."  *)
(* stands for any character; the other characters of the addresses used   *)
(* here match themselves, whatever their case                             *)
RegExpTest(p, s) ==
  /\ Len(p) = Len(s)
  /\ \A n \in 1..Len(p) : p[n] = "." \/ LowerChar(p[n]) = LowerChar(s[n])

(* the Student collection, which the teacher routes fill *)
Roster == { <<"a", "a">>, <<"b">> }

(* Student.findOne({ email: { $regex: .. } }) finds a document *)
FindStudent(normalizedEmail) ==
  \E s \in Roster : RegExpTest(normalizedEmail, s)

(* the unique index on StudentAuth.email rejects the insert *)
DuplicateEmail(e) == \E i \in 1..Len(auth) : auth[i].email = e

RegisterEmails ==
  { <<"a", "a">>, <<"A", "a">>, <<" ", "a", "a">>, <<"a", ".">>, <<"b">>,
    <<"a">> }

RegisterInputs == [emails |-> RegisterEmails, missing |-> BOOLEAN]

Register_Request(r, in) ==
  /\ req[r].pc = "idle"
  /\ \E e \in in.emails, m \in in.missing :
       req' = [req EXCEPT ![r] =
                 [IdleReq EXCEPT !.op = "register", !.pc = "register_student",
                                 !.email = e, !.missing = m]]
  /\ response' = NoResponse
  /\ UNCHANGED <<now, quiz, attempts, finalizeCount, auth>>

Register_FindStudent(r) ==
  /\ req[r].pc = "register_student"
  /\ LET normalizedEmail == Trim(ToLowerCase(req[r].email))
     IN IF MissingInput(req[r])
        THEN Respond(r, 400, "Email, password, and name are required", 0, <<>>)
        ELSE IF ~FindStudent(normalizedEmail)
        THEN Respond(r, 403, "This email is not in the system", 0, <<>>)
        ELSE UNCHANGED response /\ req' = [req EXCEPT ![r].pc = "register_find",
                                  ![r].account = NewAccount(normalizedEmail)]
  /\ UNCHANGED <<now, quiz, attempts, finalizeCount, auth>>

Register_FindAccount(r) ==
  /\ req[r].pc = "register_find"
  /\ IF \E i \in 1..Len(auth) : auth[i].email = req[r].account.email
     THEN Respond(r, 400, "Account already exists. Please login.", 0, <<>>)
     ELSE Goto(r, "register_save")
  /\ UNCHANGED <<now, quiz, attempts, finalizeCount, auth>>

Register_Save(r) ==
  /\ req[r].pc = "register_save"
  /\ IF DuplicateEmail(req[r].account.email)
     THEN /\ Respond(r, 400, "Email already registered", 0, <<>>)
          /\ UNCHANGED auth
     ELSE /\ auth' = Append(auth, req[r].account)
          /\ Respond(r, 201, "Registration successful", Len(auth) + 1, <<>>)
  /\ UNCHANGED <<now, quiz, attempts, finalizeCount>>

InitRegister ==
  /\ now = 0
  /\ quiz = BaseQuiz
  /\ attempts = <<>>
  /\ req = [r \in Reqs |-> IdleReq]
  /\ response = NoResponse
  /\ finalizeCount = [i \in 1..MaxAttempts |-> 0]
  /\ auth = <<>>

(* registrations of any number of clients, cut at every await *)
NextRegister ==
  \E r \in Reqs :
    \/ Register_Request(r, RegisterInputs)
    \/ Register_FindStudent(r)
    \/ Register_FindAccount(r)
    \/ Register_Save(r)

SpecRegister == InitRegister /\ [][NextRegister]_vars

(* the identity-based submit when the external grader may not return:    *)
(* the pending call is ended by its timeout, which the event loop         *)
(* eventually delivers (weak fairness on the steps of the request)        *)
TimeoutInputs ==
  [emails |-> {"s1"}, payloads |-> Payloads, reasons |-> {"", "tab-switch"},
   autos |-> {FALSE}, ids |-> 1..MaxAttempts, grades |-> GraderOutcomes,
   kinds |-> {"list"}, missing |-> {FALSE}]

TimeoutStep(r) ==
  \/ QuizStart_FindQuiz(r)
  \/ QuizStart_FindSubmitted(r)
  \/ QuizStart_FindExisting(r)
  \/ QuizStart_CreateSave(r)
  \/ QuizSubmit_Find(r)
  \/ QuizSubmit_Grade(r, TimeoutInputs)
  \/ QuizSubmit_GraderPending(r)
  \/ gradeShortAnswer_Timeout(r)
  \/ QuizSubmit_Save(r)

NextTimeout ==
  \/ AllIdle /\ Len(attempts) < MaxAttempts /\ QuizStart_Request(1, TimeoutInputs)
  \/ AllIdle /\ QuizSubmit_Request(1, TimeoutInputs)
  \/ TimeoutStep(1)

SpecTimeout == InitRace /\ [][NextTimeout]_vars /\ WF_vars(TimeoutStep(1))

(* ============================ claims ================================== *)
BeginOps == {"quiz/start", "attempt/start"}
SubmitOps == {"quiz/submit", "attempt/submit"}
FinalizedStatuses == {"submitted", "graded", "blocked"}
Ids == 1..Len(attempts)

LiveOf(e) == {i \in Ids : IsLiveFor(e, attempts[i])}

(* a handler sends its response in this step *)
Responds(ops) == response' # response /\ response'.op \in ops

(* C1: for every (quiz, student email) pair at most one attempt is live   *)
(* (started or in-progress), after any sequence of atomically executed    *)
(* begin (both entry points), saveProgress and submit operations.         *)
C1_AtMostOneLiveAttempt ==
  \A e \in MainInputs.emails : Cardinality(LiveOf(e)) <= 1

(* C2: two interleaved identity-based begins for the same (quiz, student) *)
(* create at most one new live attempt.                                   *)
C2_OneLivePerConcurrentStart ==
  \A e \in RaceInputs.emails :
    Cardinality({i \in LiveOf(e) : attempts[i].uniqueToken.kind = "rnd"}) <= 1

C4_LateSubmitRejected ==
  \A i \in Ids :
    attempts[i].status \in FinalizedStatuses =>
      FloorSeconds(attempts[i].submittedAt - attempts[i].startedAt)
        < TotalSeconds(attempts[i])

(* C5: begin, through either entry point, never creates or resumes an     *)
(* attempt while the quiz is not accessible.                              *)
C5_BeginOnlyWhenAccessible ==
  [][(Responds(BeginOps) /\ response'.code = 200)
       => isAccessible(quiz, now).accessible]_vars

(* C6: if a terminal attempt (submitted, graded, expired or blocked)      *)
(* exists for the (quiz, student) pair, begin is rejected.                *)
C6_BeginRejectedAfterTerminal ==
  (response.op \in BeginOps /\ response.hadTerminal) => response.code # 200

(* C7: when a live, non-expired attempt exists for (quiz, student), a     *)
(* begin returns that attempt's id with its saved answers, creates no     *)
(* attempt and leaves the store unchanged.                                *)
C7_IdempotentResume ==
  [][(Responds(BeginOps)
        /\ \E i \in LiveOf(response'.email) : ~isExpired(attempts[i], now))
       => /\ response'.code = 200
          /\ response'.id \in LiveOf(response'.email)
          /\ ~isExpired(attempts[response'.id], now)
          /\ response'.answers = attempts[response'.id].answers
          /\ attempts' = attempts]_vars

(* C8: a submit (identity-based or token-based) on an attempt that is     *)
(* already terminal is rejected and changes no field of any attempt.      *)
C8_SubmitOnTerminalRejected ==
  [][\A r \in Reqs :
       (/\ req[r].pc \in {"submit_find", "tsubmit_find"}
        /\ req'[r] # req[r]
        /\ req[r].attemptId \in Ids
        /\ attempts[req[r].attemptId].status \in TerminalStatuses)
       => /\ req'[r].pc = "idle"
          /\ response'.code \in {400, 404}
          /\ attempts' = attempts]_vars

C8_Witness ==
  /\ response.op \in SubmitOps
  /\ response.code \in {400, 404}
  /\ response.attemptId \in Ids
  /\ attempts[response.attemptId].status \in TerminalStatuses

(* C9: once an attempt is terminal none of its fields changes, under any  *)
(* interleaving of begin, saveProgress and submit.                        *)
C9_TerminalImmutable ==
  [][\A i \in Ids :
       attempts[i].status \in TerminalStatuses => attempts'[i] = attempts[i]]_vars

SuppliedOf(answers) ==
  [i \in 1..Len(answers) |->
     [questionId |-> answers[i].questionId,
      studentAnswer |-> answers[i].studentAnswer]]

(* C11: saveProgress is rejected, with the attempt store unchanged,       *)
(* whenever the attempt id is unknown or the attempt's status is not live *)
(* (started or in-progress).                                              *)
C11_SaveProgressRejected ==
  [][\A r \in Reqs :
       (/\ req[r].pc = "save_find"
        /\ req'[r] # req[r]
        /\ \/ req[r].attemptId \notin Ids
           \/ attempts[req[r].attemptId].status \notin LiveStatuses)
       => /\ req'[r].pc = "idle"
          /\ response'.op = "quiz/save-progress"
          /\ response'.code = 404
          /\ attempts' = attempts]_vars

C11_Witness ==
  /\ response.op = "quiz/save-progress"
  /\ response.code = 404
  /\ response.attemptId \in Ids
  /\ attempts[response.attemptId].status \in TerminalStatuses

(* C12: a successful saveProgress replaces the stored answer list with    *)
(* exactly the supplied list (nothing merged from the previous list) and  *)
(* sets timeSpent to the whole seconds between startedAt and now; every   *)
(* other field of the attempt and every other attempt are unchanged.      *)
C12_SaveProgressOverwrites ==
  [][\A r \in Reqs :
       (req[r].pc = "save_save" /\ req'[r] # req[r])
       => LET id == req[r].attemptId
          IN /\ response'.code = 200
             /\ Len(attempts') = Len(attempts)
             /\ SuppliedOf(attempts'[id].answers) = req[r].answers
             /\ attempts'[id].timeSpent = (now - attempts[id].startedAt) \div 1000
             /\ \A f \in DOMAIN attempts[id] \ {"answers", "timeSpent"} :
                  attempts'[id][f] = attempts[id][f]
             /\ \A j \in Ids \ {id} : attempts'[j] = attempts[j]]_vars

C12_Witness ==
  /\ response.op = "quiz/save-progress"
  /\ response.code = 200
  /\ attempts[response.attemptId].answers # <<>>
  /\ attempts[response.attemptId].timeSpent = DefaultDuration * 60

(* C13: when begin finds a live attempt that has expired, it moves that   *)
(* attempt to status expired and then creates and returns a new attempt   *)
(* with a different id in status started; the old attempt is never        *)
(* returned as resumable.                                                 *)
C13_ExpiredLiveReplaced ==
  [][/\ (Responds(BeginOps) /\ response'.code = 200)
          => /\ attempts'[response'.id].status = "started"
             /\ ~isExpired(attempts'[response'.id], now)
     /\ \A r \in Reqs :
          (req[r].pc = "start_expire_save" /\ req'[r] # req[r])
          => /\ attempts'[req[r].attemptId].status = "expired"
             /\ req'[r].pc = "start_create"
     /\ (Responds(BeginOps) /\ Len(attempts') > Len(attempts))
          => /\ response'.id = Len(attempts')
             /\ response'.code = 200]_vars

(* C14: every attempt created by begin, through either entry point,       *)
(* starts with status started, startedAt equal to the creation instant,   *)
(* maxMarks equal to the quiz's totalMarks and duration equal to the      *)
(* quiz's duration.                                                       *)
C14_CreatedAttemptFields ==
  [][Len(attempts') = Len(attempts) + 1
       => LET a == attempts'[Len(attempts')]
          IN /\ a.status = "started"
             /\ a.startedAt = now
             /\ a.maxMarks = quiz.totalMarks
             /\ a.duration = quiz.duration]_vars

(* GET /quiz/:quizId has answered with the result of isAccessible *)
GotAccess == response.op = "quiz/get" /\ response.code \in {200, 403}

StartInstant == CombineDateTime(quiz.startDate, quiz.startTime)
EndInstant == CombineDateTime(quiz.endDate, quiz.endTime)

(* C15: for every quiz with isScheduled false, isAccessible returns       *)
(* accessible = true for every current instant and every value of the     *)
(* start/end date and time fields.                                        *)
C15_UnscheduledAlwaysAccessible ==
  (GotAccess /\ ~quiz.isScheduled)
    => response.access.accessible /\ response.code = 200

C15_Witness ==
  /\ GotAccess
  /\ ~quiz.isScheduled
  /\ quiz.startDate # Null
  /\ quiz.endDate # Null
  /\ now > EndInstant
  /\ response.access.accessible

(* C16: for a scheduled quiz with start instant S and end instant E:      *)
(* now < S gives not accessible with startsAt = S; otherwise now > E      *)
(* gives not accessible with endedAt = E; otherwise (S <= now <= E, both  *)
(* boundaries included) it is accessible with endsAt = E.  The result is  *)
(* exactly one of the three outcomes, and S > E is never accessible.      *)
C16_OrderedOutcomes ==
  (GotAccess /\ quiz.isScheduled)
    => /\ response.access =
            (IF now < StartInstant
             THEN [accessible |-> FALSE, startsAt |-> StartInstant,
                   endedAt |-> Null, endsAt |-> Null]
             ELSE IF now > EndInstant
             THEN [accessible |-> FALSE, startsAt |-> Null,
                   endedAt |-> EndInstant, endsAt |-> Null]
             ELSE [accessible |-> TRUE, startsAt |-> Null,
                   endedAt |-> Null, endsAt |-> EndInstant])
       /\ response.code = (IF response.access.accessible THEN 200 ELSE 403)
       /\ StartInstant > EndInstant => ~response.access.accessible

C16_Witness ==
  /\ GotAccess
  /\ quiz.isScheduled
  /\ quiz.startDate # Null
  /\ StartInstant < EndInstant
  /\ now = EndInstant
  /\ response.access.accessible
  /\ response.access.endsAt = EndInstant

(* C17: a quiz with isScheduled true whose startDate is null, whose       *)
(* endDate is null, or both, is not accessible at any instant.            *)
C17_NullDatesFailClosed ==
  (GotAccess /\ quiz.isScheduled
     /\ (quiz.startDate = Null \/ quiz.endDate = Null))
    => ~response.access.accessible /\ response.code = 403

(* C18: with no start time-of-day the start instant is the beginning of   *)
(* the start date's day, and with no end time-of-day the end instant is   *)
(* the end of the end date's day, so the quiz stays accessible for every  *)
(* instant of the end date.                                               *)
C18_MissingTimeDefaults ==
  (GotAccess /\ quiz.isScheduled
     /\ quiz.startDate # Null /\ quiz.endDate # Null
     /\ (quiz.startTime = NoTime \/ quiz.endTime = NoTime))
    => LET dayOfStart == (quiz.startDate \div DayMs) * DayMs
           dayOfEnd == (quiz.endDate \div DayMs) * DayMs
           S == IF quiz.startTime = NoTime THEN dayOfStart ELSE StartInstant
           E == IF quiz.endTime = NoTime THEN dayOfEnd + DayMs - 1
                ELSE EndInstant
       IN response.access.accessible <=> (S <= now /\ now <= E)

(* C19: after every successful submit, for any questions, any submitted   *)
(* answers and any result of the free-text grader, the attempt satisfies  *)
(* 0 <= totalMarks <= maxMarks, and maxMarks is the sum of the marks of   *)
(* the quiz's questions.                                                  *)
C19_MarksBounded ==
  \A i \in Ids :
    attempts[i].status \in FinalizedStatuses
      => /\ 0 <= attempts[i].totalMarks
         /\ attempts[i].totalMarks <= attempts[i].maxMarks
         /\ attempts[i].maxMarks = SumMarks(quiz.questions)

(* C20: if the grader call throws for a free-text question, submit still  *)
(* completes: that question is recorded with marks 0 and isCorrect false, *)
(* every other question is graded normally, and the attempt reaches its   *)
(* terminal status.                                                       *)
C20_GraderFailureTolerated ==
  [][\A r \in Reqs :
       /\ (req[r].pc \in {"submit_grade", "tsubmit_grade"} /\ req'[r] # req[r])
            => req'[r].pc \in {"submit_save", "tsubmit_save"}
       /\ (req[r].pc \in {"submit_save", "tsubmit_save"} /\ req'[r] # req[r])
            => LET a == attempts'[req[r].attemptId]
               IN /\ response'.code = 200
                  /\ a.status \in FinalizedStatuses
                  /\ Len(a.answers) = Len(quiz.questions)
                  /\ \A i \in 1..Len(quiz.questions) :
                       LET q == quiz.questions[i]
                           right == MatchesMCQ(q, StudentAnswerOf(req[r].answers, q.id))
                       IN IF q.type = "short-answer"
                          THEN req[r].ai[i].threw
                                 => a.answers[i].marks = 0 /\ ~a.answers[i].isCorrect
                          ELSE /\ a.answers[i].isCorrect = right
                               /\ a.answers[i].marks = (IF right THEN q.marks ELSE 0)]_vars

C20_Witness ==
  /\ response.op \in SubmitOps
  /\ response.code = 200
  /\ attempts[response.attemptId].status \in FinalizedStatuses
  /\ attempts[response.attemptId].answers[2].explanation = "AI Grading error fallback."
  /\ attempts[response.attemptId].answers[2].marks = 0
  /\ attempts[response.attemptId].answers[1].marks = 2

(* the letter of position k of an option list *)
LetterOf(k) == <<"A", "B", "C", "D", "E">>[k]

(* C21: for an objective question with a non-empty option list and every  *)
(* position k of the list (not only the first four), a student answer     *)
(* that is the letter of position k matches a canonical answer equal to   *)
(* the text of option k, and a student answer equal to the text of option *)
(* k matches a canonical answer that is the letter of position k.         *)
C21_LetterMatchesEveryPosition ==
  \A i \in Ids :
    attempts[i].status \in FinalizedStatuses
      => \A n \in 1..Len(quiz.questions) :
           LET q == quiz.questions[n]
               rec == attempts[i].answers[n]
           IN (q.type = "mcq" /\ q.options # <<>>)
                => \A k \in 1..Len(q.options) :
                     (\/ rec.studentAnswer = LetterOf(k) /\ q.answer = q.options[k]
                      \/ rec.studentAnswer = q.options[k] /\ q.answer = LetterOf(k))
                       => rec.isCorrect /\ rec.marks = q.marks

(* C22: the graded answer list written by submit has exactly one record   *)
(* per quiz question, in quiz question order, whatever the submitted      *)
(* answers are: a question with no submitted answer is graded as an empty *)
(* answer, answers for unknown question ids are ignored, and a missing or *)
(* non-list answers payload never makes submit fail.                      *)
C22_OneRecordPerQuestion ==
  [][\A r \in Reqs :
       /\ (/\ req[r].pc \in {"submit_find", "tsubmit_find"}
           /\ req'[r] # req[r]
           /\ ~req[r].missing
           /\ req[r].attemptId \in Ids
           /\ attempts[req[r].attemptId].status = "started"
           /\ req[r].pc = "submit_find"
                => attempts[req[r].attemptId].email = req[r].email)
            => req'[r].pc \in {"submit_grade", "tsubmit_grade"}
       /\ (req[r].pc \in {"submit_save", "tsubmit_save"} /\ req'[r] # req[r])
            => LET a == attempts'[req[r].attemptId]
                   supplied == IF req[r].kind = "list" THEN req[r].answers ELSE <<>>
               IN /\ response'.code = 200
                  /\ Len(a.answers) = Len(quiz.questions)
                  /\ \A n \in 1..Len(quiz.questions) :
                       LET hits == {j \in 1..Len(supplied) :
                                      supplied[j].questionId = quiz.questions[n].id}
                       IN /\ a.answers[n].questionId = quiz.questions[n].id
                          /\ hits = {} => a.answers[n].studentAnswer = ""
                          /\ hits # {} => \E j \in hits :
                               a.answers[n].studentAnswer = supplied[j].studentAnswer]_vars

(* C23: no response sent before the attempt is submitted (quiz details,  *)
(* quiz by link, begin and resume in both flows, saveProgress) contains   *)
(* the canonical answer or the explanation of any question.               *)
BeforeSubmitOps ==
  {"quiz/get", "attempt/get", "quiz/start", "attempt/start", "quiz/save-progress"}

C23_NoAnswerBeforeSubmit ==
  response.op \in BeforeSubmitOps =>
    /\ \A n \in DOMAIN response.questions :
         {"answer", "explanation"} \cap DOMAIN response.questions[n] = {}
    /\ \A n \in DOMAIN response.answers :
         /\ response.answers[n].correctAnswer = "undef"
         /\ response.answers[n].explanation = "undef"

C23_Witness ==
  /\ response.op = "attempt/start"
  /\ response.code = 200
  /\ Len(response.questions) = Len(quiz.questions)
  /\ \E n \in DOMAIN quiz.questions : quiz.questions[n].answer # ""

(* C24: every attempt belongs to a student who is on the quiz's roster     *)
(* (sharedWith); a begin for an identity not on the roster is rejected     *)
(* and creates nothing.                                                    *)
C24_AttemptsOnRoster ==
  /\ \A i \in Ids : attempts[i].email \in quiz.sharedWith
  /\ (response.op \in BeginOps /\ response.email \notin quiz.sharedWith)
       => response.code # 200

(* C26: a begin, saveProgress or submit request with a missing required    *)
(* input is rejected by its first step, before any read or write of the    *)
(* store, and the attempts are left as they were.                          *)
C26_MissingInputRejectedFirst ==
  [][\A r \in Reqs :
       (req[r].missing /\ req[r].pc # "idle" /\ req'[r] # req[r]) =>
         /\ req'[r].pc = "idle"
         /\ response'.code = 400
         /\ response'.op = req[r].op
         /\ attempts' = attempts]_vars

C26_Witness ==
  /\ response.op = "quiz/submit"
  /\ response.code = 400
  /\ response.msg = "Attempt ID is required"
  /\ LiveOf(response.email) # {}

(* C25: every begin, saveProgress and submit request ends with exactly    *)
(* one response, a success or an error, on every path, a rejected store    *)
(* operation and a throwing grader included: a request in progress sends   *)
(* nothing until the step that ends it, that step sends the response of    *)
(* this request, and every request in progress is eventually ended.        *)
C25_ExactlyOneResponse ==
  /\ [][\A r \in Reqs :
          (req[r].pc # "idle" /\ req'[r] # req[r]) =>
            IF req'[r].pc = "idle"
            THEN /\ response'.op = req[r].op
                 /\ response'.code \in {200, 400, 403, 404, 500}
            ELSE response' = response /\ response = NoResponse]_vars
  /\ \A r \in Reqs : (req[r].pc # "idle") ~> (req[r].pc = "idle")

C25_Witness ==
  /\ response.op = "quiz/submit"
  /\ response.code = 500
  /\ response.msg = "store error"
  /\ \E i \in Ids : attempts[i].status \in LiveStatuses

(* C27: after any sequence of quiz save, update (with or without          *)
(* questions) and share, the stored quiz has totalMarks equal to the sum   *)
(* of its questions' marks and numQuestions equal to their number.         *)
C27_TotalsMatchQuestions ==
  /\ quiz.totalMarks = SumMarks(quiz.questions)
  /\ quiz.numQuestions = Len(quiz.questions)

(* C28: no two attempts share a uniqueToken; when two token-based begins  *)
(* for the same token interleave, one attempt is created and the begin     *)
(* that inserts second gets an error and creates nothing.                  *)
C28_UniqueTokens ==
  /\ [](\A i, j \in Ids :
          attempts[i].uniqueToken = attempts[j].uniqueToken => i = j)
  /\ [][\A r \in Reqs :
          ( /\ req[r].pc = "tstart_create"
            /\ req'[r] # req[r]
            /\ \E i \in Ids : attempts[i].uniqueToken = req[r].doc.uniqueToken )
          => /\ attempts' = attempts
             /\ response'.op = "attempt/start"
             /\ response'.code = 400]_vars

C28_Witness ==
  /\ response.op = "attempt/start"
  /\ response.code = 400
  /\ response.msg = "E11000 duplicate key"
  /\ Cardinality({i \in Ids : attempts[i].uniqueToken = LinkToken(response.email)}) = 1

(* C29: the token-based and the identity-based submit are equivalent: on  *)
(* every attempt and for the same answers both accept or both reject,      *)
(* and when they accept they write the same status, graded answers,        *)
(* totalMarks, percentage, submittedAt, gradedAt and timeSpent.            *)
FinalizationFields ==
  {"status", "answers", "totalMarks", "percentage", "submittedAt",
   "gradedAt", "timeSpent"}

C29_SubmitFlowsEquivalent ==
  \A i \in Ids :
    \A answers \in GradingPayloads :
      \A ai \in [1..Len(quiz.questions) -> FullMarks] :
        LET attempt == attempts[i]
            rq == [IdleReq EXCEPT !.email = attempt.email, !.attemptId = i,
                                  !.answers = answers]
        IN /\ OwnedLive(i, attempt.email) <=> TokenSubmitAccepts(attempt)
           /\ OwnedLive(i, attempt.email) =>
                \A f \in FinalizationFields :
                  QuizSubmitDoc(attempt, rq, ai, now)[f]
                    = AttemptSubmitDoc(attempt, rq, ai, now)[f]

(* C30: isExpired is false for an attempt whose status is not live; for  *)
(* a live attempt it is true exactly when the whole seconds elapsed since  *)
(* startedAt are at least duration * 60.                                   *)
C30_ExpiredExactlyAtDuration ==
  response.op = "isExpired" =>
    LET attempt == attempts[response.id]
        wholeSeconds == (now - attempt.startedAt) \div 1000
    IN (response.msg = "expired") <=>
         /\ attempt.status \in {"started", "in-progress"}
         /\ wholeSeconds >= attempt.duration * 60

C30_Witness ==
  /\ response.op = "isExpired"
  /\ response.msg = "expired"
  /\ attempts[1].startedAt = 500
  /\ now - attempts[1].startedAt = attempts[1].duration * MinuteMs + 499

(* C31: an attempt on which saveProgress has succeeded has status         *)
(* in-progress until it becomes terminal: the successful save leaves the   *)
(* attempt in-progress, and an attempt whose status is started has no      *)
(* saved progress.                                                         *)
C31_SavedProgressIsInProgress ==
  [][\A r \in Reqs :
       ( /\ req[r].pc = "save_save"
         /\ req'[r].pc = "idle"
         /\ response'.code = 200 )
       => attempts'[req[r].attemptId].status = "in-progress"]_vars

(* C32: saveProgress on a live attempt whose time has run out is rejected  *)
(* at its read and the stored answers are not overwritten.                 *)
C32_SaveProgressRejectedWhenExpired ==
  [][\A r \in Reqs :
       ( /\ req[r].pc = "save_find"
         /\ req'[r] # req[r]
         /\ OwnedLive(req[r].attemptId, req[r].email)
         /\ isExpired(attempts[req[r].attemptId], now) )
       => /\ req'[r].pc = "idle"
          /\ response'.code # 200
          /\ attempts' = attempts]_vars

(* C35: saveProgress and both submits read and change only an attempt      *)
(* whose studentEmail is the caller's: a request that names another        *)
(* student's attempt ends at its read with "not found" and changes         *)
(* nothing, and no step of such a request changes an attempt of another    *)
(* student.                                                                *)
OwnerOps == {"quiz/save-progress", "quiz/submit", "attempt/submit"}

C35_OnlyOwnAttempt ==
  [][\A r \in Reqs :
       (req[r].op \in OwnerOps /\ req[r].pc # "idle" /\ req'[r] # req[r]) =>
         /\ \A i \in Ids :
              attempts'[i] # attempts[i] => attempts[i].email = req[r].email
         /\ ( /\ req[r].pc \in {"save_find", "submit_find", "tsubmit_find"}
              /\ ~req[r].missing
              /\ req[r].attemptId \in Ids
              /\ attempts[req[r].attemptId].email # req[r].email )
            => /\ req'[r].pc = "idle"
               /\ response'.code = 404
               /\ attempts' = attempts]_vars

(* C33: every finalized attempt has percentage = totalMarks / maxMarks    *)
(* * 100 of its own stored totalMarks and maxMarks, and percentage 0 when  *)
(* maxMarks is 0, also when the quiz's questions are updated between       *)
(* begin and submit.  (percentage is the fraction <<numerator, denominator>>.) *)
C33_PercentageOfOwnMarks ==
  \A i \in Ids :
    attempts[i].status \in FinalizedStatuses =>
      IF attempts[i].maxMarks > 0
      THEN attempts[i].percentage[1] * attempts[i].maxMarks
             = attempts[i].totalMarks * 100 * attempts[i].percentage[2]
      ELSE attempts[i].percentage[1] = 0

C36_LoginLockout ==
  /\ [](\A i \in 1..Len(auth) :
          auth[i].lockUntil # Null => auth[i].failedAttempts >= 5)
  /\ [][\A r \in Reqs :
          (req[r].pc = "login_save" /\ req'[r] # req[r]) =>
            LET i == req[r].attemptId
            IN IF req[r].passwordOk
               THEN /\ response'.code = 200
                    /\ auth'[i].failedAttempts = 0
                    /\ auth'[i].lockUntil = Null
               ELSE /\ response'.code = 401
                    /\ auth'[i].failedChecks >= 5 =>
                         /\ auth'[i].lockUntil # Null
                         /\ auth'[i].lockUntil > now
                         /\ auth'[i].lockUntil <= now + 30 * 60 * 1000]_vars
  /\ [][\A r \in Reqs :
          ( /\ req[r].pc = "login_find" /\ req'[r] # req[r]
            /\ ~req[r].missing
            /\ \E i \in 1..Len(auth) :
                 /\ auth[i].email = LowerCase(req[r].email)
                 /\ auth[i].lockUntil # Null /\ auth[i].lockUntil > now )
          => /\ req'[r].pc = "idle"
             /\ response'.code = 423
             /\ auth' = auth]_vars

(* C37: a lock that runs out keeps failedAttempts (the passage of time     *)
(* changes no account), so the first failed login after the lock has run   *)
(* out locks the account again for a further 30 minutes.                   *)
C37_RelockAfterExpiry ==
  /\ [][now' # now => auth' = auth]_vars
  /\ [][\A r \in Reqs :
          ( /\ req[r].pc = "login_save" /\ req'[r] # req[r]
            /\ ~req[r].passwordOk
            /\ auth[req[r].attemptId].lockUntil # Null
            /\ auth[req[r].attemptId].lockUntil <= now )
          => /\ auth'[req[r].attemptId].lockUntil > now
             /\ auth'[req[r].attemptId].lockUntil <= now + 30 * 60 * 1000]_vars

(* C38: under concurrent failed logins no increment is lost:               *)
(* failedAttempts is the number of failed password checks since the last   *)
(* successful login, and an account with five of them is locked.           *)
C38_NoLostIncrement ==
  \A i \in 1..Len(auth) :
    /\ auth[i].failedAttempts = auth[i].failedChecks
    /\ auth[i].failedChecks >= 5 => auth[i].lockUntil # Null

(* C39: no two accounts have the same normalized email: of two registers   *)
(* for one email that both pass the already-registered check, one creates  *)
(* the account and the other ends with an 'already registered' error and   *)
(* creates nothing; and no account is created for an email that is absent  *)
(* from the roster.                                                        *)
C39_UniquenessPart ==
  /\ \A i, j \in 1..Len(auth) :
       ToLowerCase(auth[i].email) = ToLowerCase(auth[j].email) => i = j
  /\ response.op = "register" /\ response.msg = "Email already registered" =>
       /\ response.code = 400
       /\ \E i \in 1..Len(auth) : auth[i].email = Trim(ToLowerCase(response.email))

C39_OneAccountPerRosterEmail ==
  /\ C39_UniquenessPart
  /\ \A i \in 1..Len(auth) :
       \E s \in Roster : ToLowerCase(s) = ToLowerCase(auth[i].email)

====
